---- MODULE Spec2Model ----
(***************************************************************************)
(* Model of server.py: the local HTTPS test server of the Head Tilt        *)
(* YouTube Controller.  One process runs main(); the state is the          *)
(* process's position in main(), the two files of the working directory,   *)
(* the owner of TCP port 8000, the listening socket, the console output    *)
(* and the connections of the serving loop.  The environment (the          *)
(* operator, the HTTPS clients, other processes that may hold the port,    *)
(* the openssl tool, the network stack) supplies the inputs.               *)
(***************************************************************************)
EXTENDS Integers, Sequences, FiniteSets, TLC

\* ------------------------------------------------------------------ bounds
MaxRuns == 2
MaxConns == 2

\* --------------------------------------------------------------- constants
PORT == 8000

Absent == "absent"
IndexBody == "<h1>hi</h1>"

\* states of cert.pem on disk: no file, a usable certificate+key, or a file
\* that exists but holds no usable certificate (openssl died half way)
CertStates == {Absent, "valid", "invalid"}

\* outcomes of the shell command of line 34, as exit codes:
\*   0   certificate and key written
\*   1   openssl failed, nothing written
\*   2   openssl failed after creating the output file
\*   127 the shell did not find openssl
ToolCodes == {0, 1, 2, 127}

\* addresses getsockname() can report for the UDP socket
Addrs == {"192.168.1.23", "10.0.0.5"}

\* request paths sent by clients
Paths == {"/index.html", "/nope.html", "/"}

IpSteps == {"ip_socket", "ip_connect", "ip_getsockname", "ip_close"}

NoExc == [exc |-> "none", at |-> "none"]

VARIABLES
  pc,          \* position of the process in main(); "idle"/"exited" = no process
  run,         \* number of the current (or last) run of main()
  fs,          \* working directory: [cert |-> state of cert.pem, index |-> content of index.html]
  portOwner,   \* who has TCP port 8000 bound: "free", "self", "other"
  sock,        \* httpd.socket of the live process: "none", "bound", "wrapped"
  local_ip,    \* value returned by get_local_ip(), "unset" before
  out,         \* console output of this run, a sequence of printed lines
  exitStatus,  \* "none" while running, "clean" (main returned), "error" (traceback)
  raised,      \* the exception that left main(), and where it was raised
  steps,       \* the stages of main() completed in this run, in order
  toolRuns,    \* the runs in which os.system(openssl ...) was invoked
  toolRc,      \* exit code of the os.system call of this run, -1 if not called
  certAtStart, \* cert.pem existed when this run started
  ipFault,     \* what was swallowed inside get_local_ip in this run, "none" if nothing
  sigints,     \* operator interrupts delivered to the process in this run
  backlog,     \* connections waiting in the listen queue, as request paths
  accepted,    \* number of connections accepted in this run
  inflight,    \* connections whose request is being handled
  responses,   \* responses sent in this run
  has_wrap_socket \* the interpreter's ssl module still has wrap_socket (removed in 3.12)

vars == <<pc, run, fs, portOwner, sock, local_ip, out, exitStatus, raised, steps,
          toolRuns, toolRc, certAtStart, ipFault, sigints, backlog, accepted,
          inflight, responses, has_wrap_socket>>

serveVars == <<backlog, accepted, inflight, responses>>
histVars == <<toolRuns, toolRc, certAtStart, ipFault, sigints>>

\* ------------------------------------------------------------ console lines
Line(kind, host, port) == [kind |-> kind, host |-> host, port |-> port]

Title == Line("title", "", 0)
Generating == Line("generating", "", 0)
Started == Line("started", "", 0)
Stopped == Line("stopped", "", 0)

\* f"   https://localhost:{PORT}"
LocalUrlWrongScheme(port) == Line("http", "localhost", port)
LocalUrl(port) == Line("https", "localhost", port)

\* f"   https://{local_ip}:{PORT}"
LanUrl(ip, port) == Line("https", ip, port)

\* ------------------------------------------------------------ pure helpers
\* os.path.exists('cert.pem')
existsNever(f) == FALSE
exists(f) == f # Absent

\* what the shell command leaves in cert.pem (only run when the file is absent)
openssl(rc, f) == IF rc = 0 THEN "valid" ELSE IF rc = 2 THEN "invalid" ELSE f

\* os.system returns the exit code; main drops it
os_system_checked(rc) == rc # 0
os_system_raises(rc) == FALSE

\* HTTPServer(('', PORT), ...) binds and listens in its constructor
CanBind(owner) == owner = "free"

\* ssl.wrap_socket(certfile='./cert.pem') loads the certificate chain at once
wrap_socket_unchecked(f) == TRUE
wrap_socket_ok(f) == f = "valid"

\* the value of the bare except of get_local_ip
fallback_wrong == "0.0.0.0"
get_local_ip_fallback == "localhost"

\* the bare "except:" of get_local_ip catches every exception
catches_Exception_only(exc) == exc # "KeyboardInterrupt"
get_local_ip_catches(exc) == TRUE

\* "try: httpd.serve_forever() / except KeyboardInterrupt" of main
main_catches_none(p, exc) == FALSE
main_catches_anywhere(p, exc) == TRUE
main_catches(p, exc) == p = "serving" /\ exc = "KeyboardInterrupt"

\* the order of the stages of main()
SuccessorSpecOrder(stage) ==
  CASE stage = "cert" -> "ip_socket"
    [] stage = "ip" -> "bind"
    [] stage = "bind" -> "wrap"
    [] stage = "wrap" -> "banner"
    [] stage = "banner" -> "serving"
Successor(stage) ==
  CASE stage = "cert" -> "bind"
    [] stage = "bind" -> "wrap"
    [] stage = "wrap" -> "ip_socket"
    [] stage = "ip" -> "banner"
    [] stage = "banner" -> "serving"

\* HTTPServer handles a request inside the accept loop, on the calling thread
CanAcceptThreaded(handling) == TRUE
CanAccept(handling) == handling = {}

\* SimpleHTTPRequestHandler: map the request path to a file of the directory
translate_path(path) == IF path = "/" THEN "." ELSE SubSeq(path, 2, Len(path))

FileContent(name, files) ==
  IF name = "index.html" THEN files.index
  ELSE IF name = "cert.pem" THEN files.cert
  ELSE Absent

send_head(path, files) ==
  LET name == translate_path(path) IN
  IF name = "."
    THEN IF files.index # Absent
           THEN [path |-> path, status |-> 200, body |-> files.index]
           ELSE [path |-> path, status |-> 200, body |-> "listing"]
    ELSE IF FileContent(name, files) = Absent
           THEN [path |-> path, status |-> 404, body |-> ""]
           ELSE [path |-> path, status |-> 200, body |-> FileContent(name, files)]

\* ------------------------------------------------------------------- Init
Init ==
  /\ pc = "idle"
  /\ run = 0
  /\ fs \in [cert : {Absent, "valid"}, index : {Absent, IndexBody}]
  /\ portOwner \in {"free", "other"}
  /\ sock = "none"
  /\ local_ip = "unset"
  /\ out = << >>
  /\ exitStatus = "none"
  /\ raised = NoExc
  /\ steps = << >>
  /\ toolRuns = {}
  /\ toolRc = -1
  /\ certAtStart = FALSE
  /\ ipFault = "none"
  /\ sigints = 0
  /\ backlog = << >>
  /\ accepted = 0
  /\ inflight = {}
  /\ responses = << >>
  /\ has_wrap_socket \in BOOLEAN

Running == pc \notin {"idle", "exited"}

\* the process ends: the kernel closes its sockets and drops the listen queue
ProcessEnds(status, exc) ==
  /\ pc' = "exited"
  /\ exitStatus' = status
  /\ raised' = exc
  /\ sock' = "none"
  /\ portOwner' = IF portOwner = "self" THEN "free" ELSE portOwner
  /\ backlog' = << >>
  /\ inflight' = {}

\* an exception raised at the current position of main() and not caught below it
Raise(exc) ==
  IF main_catches(pc, exc)
    THEN /\ out' = Append(out, Stopped)
         /\ ProcessEnds("clean", NoExc)
    ELSE /\ out' = out
         /\ ProcessEnds("error", [exc |-> exc, at |-> pc])

\* ---------------------------------------------------------------- actions
\* the operator starts the program; before that they may have removed
\* cert.pem and put or removed index.html
StartRun ==
  /\ pc \in {"idle", "exited"}
  /\ run < MaxRuns
  /\ \E delCert \in BOOLEAN, idx \in {Absent, IndexBody} :
       /\ fs' = [cert |-> IF delCert THEN Absent ELSE fs.cert, index |-> idx]
       /\ certAtStart' = (fs'.cert # Absent)
  /\ run' = run + 1
  /\ pc' = "check_cert"
  /\ out' = <<Title>>
  /\ exitStatus' = "none"
  /\ raised' = NoExc
  /\ steps' = << >>
  /\ local_ip' = "unset"
  /\ toolRc' = -1
  /\ ipFault' = "none"
  /\ sigints' = 0
  /\ backlog' = << >>
  /\ accepted' = 0
  /\ inflight' = {}
  /\ responses' = << >>
  /\ UNCHANGED <<portOwner, sock, toolRuns, has_wrap_socket>>

\* if not os.path.exists('cert.pem'):
CheckCert ==
  /\ pc = "check_cert"
  /\ IF exists(fs.cert)
       THEN /\ pc' = Successor("cert")
            /\ steps' = Append(steps, "cert")
       ELSE /\ pc' = "gen"
            /\ steps' = steps
  /\ UNCHANGED <<run, fs, portOwner, sock, local_ip, out, exitStatus, raised,
                 has_wrap_socket>>
  /\ UNCHANGED histVars
  /\ UNCHANGED serveVars

\* print(...); os.system('openssl req ...')
Generate ==
  /\ pc = "gen"
  /\ \E rc \in ToolCodes :
       /\ toolRc' = rc
       /\ toolRuns' = toolRuns \cup {run}
       /\ fs' = [fs EXCEPT !.cert = openssl(rc, fs.cert)]
       /\ IF os_system_raises(rc)
            THEN /\ out' = Append(out, Generating)
                 /\ ProcessEnds("error", [exc |-> "CalledProcessError", at |-> pc])
                 /\ steps' = steps
            ELSE /\ out' = Append(out, Generating)
                 /\ pc' = Successor("cert")
                 /\ steps' = Append(steps, "cert")
                 /\ UNCHANGED <<portOwner, sock, exitStatus, raised, backlog, inflight>>
  /\ UNCHANGED <<run, local_ip, certAtStart, ipFault, sigints, accepted, responses,
                 has_wrap_socket>>

\* httpd = http.server.HTTPServer(('', PORT), SimpleHTTPRequestHandler)
Bind ==
  /\ pc = "bind"
  /\ IF CanBind(portOwner)
       THEN /\ portOwner' = "self"
            /\ sock' = "bound"
            /\ pc' = Successor("bind")
            /\ steps' = Append(steps, "bind")
            /\ UNCHANGED <<out, exitStatus, raised, backlog, inflight>>
       ELSE /\ Raise("OSError")
            /\ steps' = steps
  /\ UNCHANGED <<run, fs, local_ip, accepted, responses, has_wrap_socket>>
  /\ UNCHANGED histVars

\* httpd.socket = ssl.wrap_socket(httpd.socket, certfile='./cert.pem', server_side=True)
Wrap ==
  /\ pc = "wrap"
  /\ IF ~has_wrap_socket
       THEN /\ Raise("AttributeError")
            /\ steps' = steps
       ELSE IF wrap_socket_ok(fs.cert)
         THEN /\ sock' = "wrapped"
              /\ pc' = Successor("wrap")
              /\ steps' = Append(steps, "wrap")
              /\ UNCHANGED <<portOwner, out, exitStatus, raised, backlog, inflight>>
         ELSE /\ Raise(IF fs.cert = Absent THEN "FileNotFoundError" ELSE "SSLError")
              /\ steps' = steps
  /\ UNCHANGED <<run, fs, local_ip, accepted, responses, has_wrap_socket>>
  /\ UNCHANGED histVars

\* the except branch of get_local_ip: return "localhost"
IpExcept(what) ==
  /\ ipFault' = what
  /\ local_ip' = get_local_ip_fallback
  /\ pc' = Successor("ip")
  /\ steps' = Append(steps, "ip")
  /\ UNCHANGED <<portOwner, sock, out, exitStatus, raised, backlog, inflight>>

\* one statement of the try block of get_local_ip: it fails, or goes on
IpStep(here, next) ==
  /\ pc = here
  /\ \E ok \in BOOLEAN :
       IF ok
         THEN /\ pc' = next
              /\ UNCHANGED <<local_ip, steps, ipFault, portOwner, sock, out,
                             exitStatus, raised, backlog, inflight>>
         ELSE IF get_local_ip_catches("OSError")
           THEN IpExcept(here)
           ELSE /\ Raise("OSError")
                /\ UNCHANGED <<local_ip, steps, ipFault>>
  /\ UNCHANGED <<run, fs, toolRuns, toolRc, certAtStart, sigints, accepted,
                 responses, has_wrap_socket>>

\* s = socket.socket(AF_INET, SOCK_DGRAM)
IpSocket == IpStep("ip_socket", "ip_connect")

\* s.connect(("8.8.8.8", 80))
IpConnect == IpStep("ip_connect", "ip_getsockname")

\* ip = s.getsockname()[0]
IpGetsockname ==
  /\ pc = "ip_getsockname"
  /\ \/ \E a \in Addrs :
          /\ local_ip' = a
          /\ pc' = "ip_close"
          /\ UNCHANGED <<steps, ipFault, portOwner, sock, out, exitStatus, raised,
                         backlog, inflight>>
     \/ IF get_local_ip_catches("OSError")
          THEN IpExcept("ip_getsockname")
          ELSE /\ Raise("OSError")
               /\ UNCHANGED <<local_ip, steps, ipFault>>
  /\ UNCHANGED <<run, fs, toolRuns, toolRc, certAtStart, sigints, accepted,
                 responses, has_wrap_socket>>

\* s.close(); return ip
IpClose ==
  /\ pc = "ip_close"
  /\ \/ /\ pc' = Successor("ip")
        /\ steps' = Append(steps, "ip")
        /\ UNCHANGED <<local_ip, ipFault, portOwner, sock, out, exitStatus, raised,
                       backlog, inflight>>
     \/ IF get_local_ip_catches("OSError")
          THEN IpExcept("ip_close")
          ELSE /\ Raise("OSError")
               /\ UNCHANGED <<local_ip, steps, ipFault>>
  /\ UNCHANGED <<run, fs, toolRuns, toolRc, certAtStart, sigints, accepted,
                 responses, has_wrap_socket>>

\* the prints of lines 47-55
Banner ==
  /\ pc = "banner"
  /\ out' = out \o <<Started, LocalUrl(PORT), LanUrl(local_ip, PORT)>>
  /\ pc' = Successor("banner")
  /\ steps' = Append(steps, "banner")
  /\ UNCHANGED <<run, fs, portOwner, sock, local_ip, exitStatus, raised, has_wrap_socket>>
  /\ UNCHANGED histVars
  /\ UNCHANGED serveVars

\* the operator presses Ctrl-C: KeyboardInterrupt is raised in the main thread
\* at its current position.  (While os.system waits for the tool the parent
\* ignores SIGINT and the tool is hit instead: Generate covers that with a
\* failing exit code.)
Interrupt ==
  /\ Running
  /\ sigints' = sigints + 1
  /\ IF pc \in IpSteps /\ get_local_ip_catches("KeyboardInterrupt")
       THEN IpExcept("KeyboardInterrupt")
       ELSE /\ Raise("KeyboardInterrupt")
            /\ UNCHANGED <<local_ip, steps, ipFault>>
  /\ UNCHANGED <<run, fs, toolRuns, toolRc, certAtStart, accepted, responses,
                 has_wrap_socket>>

\* a client connects to port 8000 and will ask for a path
ClientConnect ==
  /\ portOwner = "self"
  /\ accepted + Len(backlog) + Cardinality(inflight) < MaxConns
  /\ \E p \in Paths : backlog' = Append(backlog, p)
  /\ UNCHANGED <<pc, run, fs, portOwner, sock, local_ip, out, exitStatus, raised,
                 steps, accepted, inflight, responses, has_wrap_socket>>
  /\ UNCHANGED histVars

\* serve_forever: accept the next connection; the TLS handshake happens in
\* accept(), and a failed handshake (OSError) drops the connection
Accept ==
  /\ pc = "serving"
  /\ backlog # << >>
  /\ CanAccept(inflight)
  /\ accepted' = accepted + 1
  /\ backlog' = Tail(backlog)
  /\ \E handshake \in BOOLEAN :
       inflight' = IF handshake
                     THEN inflight \cup {[id |-> accepted + 1, path |-> Head(backlog)]}
                     ELSE inflight
  /\ UNCHANGED <<pc, run, fs, portOwner, sock, local_ip, out, exitStatus, raised,
                 steps, responses, has_wrap_socket>>
  /\ UNCHANGED histVars

\* the request handler answers and the connection is closed; an exception
\* of the handler (the client went away) is caught by the server, which
\* closes the connection without an answer
Handle ==
  /\ pc = "serving"
  /\ \E c \in inflight, ok \in BOOLEAN :
       /\ responses' = IF ok THEN Append(responses, send_head(c.path, fs))
                             ELSE responses
       /\ inflight' = inflight \ {c}
  /\ UNCHANGED <<pc, run, fs, portOwner, sock, local_ip, out, exitStatus, raised,
                 steps, backlog, accepted, has_wrap_socket>>
  /\ UNCHANGED histVars

\* another process binds or releases port 8000
OtherBinds ==
  /\ portOwner = "free"
  /\ portOwner' = "other"
  /\ UNCHANGED <<pc, run, fs, sock, local_ip, out, exitStatus, raised, steps,
                 has_wrap_socket>>
  /\ UNCHANGED histVars
  /\ UNCHANGED serveVars

OtherReleases ==
  /\ portOwner = "other"
  /\ portOwner' = "free"
  /\ UNCHANGED <<pc, run, fs, sock, local_ip, out, exitStatus, raised, steps,
                 has_wrap_socket>>
  /\ UNCHANGED histVars
  /\ UNCHANGED serveVars

Next ==
  \/ StartRun
  \/ CheckCert
  \/ Generate
  \/ Bind
  \/ Wrap
  \/ IpSocket
  \/ IpConnect
  \/ IpGetsockname
  \/ IpClose
  \/ Banner
  \/ Interrupt
  \/ ClientConnect
  \/ Accept
  \/ Handle
  \/ OtherBinds
  \/ OtherReleases

Spec == Init /\ [][Next]_vars

TypeOK ==
  /\ pc \in {"idle", "check_cert", "gen", "bind", "wrap", "banner", "serving", "exited"}
            \cup IpSteps
  /\ run \in 0..(MaxRuns + 1)
  /\ fs.cert \in CertStates
  /\ portOwner \in {"free", "self", "other"}
  /\ sock \in {"none", "bound", "wrapped"}
  /\ exitStatus \in {"none", "clean", "error"}
  /\ (sock # "none") = (portOwner = "self")

\* ------------------------------------------------------------------ claims
Range(s) == {s[i] : i \in 1..Len(s)}

IsPrefix(s, t) == Len(s) <= Len(t) /\ \A i \in 1..Len(s) : s[i] = t[i]

\* C1: a run of main() that starts with cert.pem present never invokes the
\* external certificate tool; so the run after one that produced cert.pem
\* makes no tool invocation.
C1_NoRegeneration == certAtStart => run \notin toolRuns

C1_Witness ==
  /\ run >= 2
  /\ (run - 1) \in toolRuns
  /\ certAtStart
  /\ "cert" \in Range(steps)
  /\ run \notin toolRuns
  /\ pc = "serving"

\* C2: when socket creation, connect or reading the bound address fails in
\* get_local_ip, nothing is raised out of it and it returns "localhost";
\* main goes on to the banner, the LAN URL it prints is
\* https://localhost:8000, and the run then enters the serving loop (it can
\* only end earlier through an operator interrupt during the banner).
ResolutionFailed == ipFault \in {"ip_socket", "ip_connect", "ip_getsockname"}

C2_Fallback ==
  /\ [](ResolutionFailed =>
          /\ local_ip = "localhost"
          /\ pc \in {"banner", "serving", "exited"}
          /\ raised.at \notin IpSteps
          /\ raised.exc \in {"none", "KeyboardInterrupt"}
          /\ ("banner" \in Range(steps) =>
                \E i \in 1..Len(out) : out[i] = Line("https", "localhost", 8000)
                                       /\ i > 1 /\ out[i-1] = Line("https", "localhost", 8000)))
  /\ [][(ipFault = "none" /\ ResolutionFailed') =>
          (pc' = "banner" /\ exitStatus' = "none" /\ out' = out)]_vars

C2_Witness ==
  /\ ipFault = "ip_connect"
  /\ pc = "serving"
  /\ local_ip = "localhost"
  /\ out[Len(out)] = Line("https", "localhost", 8000)

\* C3: an operator interrupt sent to the running server (the process is in
\* its serving loop) makes it exit cleanly: the farewell message is printed,
\* no unhandled error ends the process, and once the process has exited it
\* no longer holds port 8000.
C3_Shutdown ==
  /\ [][(pc = "serving" /\ sigints' > sigints) =>
          /\ pc' = "exited"
          /\ exitStatus' = "clean"
          /\ raised' = NoExc
          /\ out' = Append(out, Stopped)
          /\ sock' = "none"
          /\ portOwner' # "self"]_vars
  /\ [](pc = "exited" => portOwner # "self" /\ sock = "none")

C3_Witness ==
  /\ pc = "exited"
  /\ exitStatus = "clean"
  /\ sigints = 1
  /\ out[Len(out)] = Stopped
  /\ "banner" \in Range(steps)
  /\ portOwner = "other"

\* C4: whenever the listening socket is TLS-wrapped, cert.pem exists and is
\* a readable certificate; the wrap step never completes in a run that
\* started without cert.pem and whose tool invocation did not produce it.
C4_CertBeforeWrap ==
  /\ (sock = "wrapped" => fs.cert = "valid")
  /\ (("wrap" \in Range(steps) /\ ~certAtStart) => (toolRc = 0 /\ fs.cert # Absent))

C4_Witness ==
  /\ sock = "wrapped"
  /\ ~certAtStart
  /\ toolRc = 0
  /\ fs.cert = "valid"

\* C5: in a run started with index.html and without cert.pem, once startup
\* is through, (a) cert.pem has been created by this run, (b) the local URL
\* https://localhost:8000 has been printed, and (c) the process is in the
\* serving loop where every answer to /index.html is 200 with the file's
\* bytes and every answer to a non-existent path is 404.  With the tool
\* succeeding, such a run ends before the loop only when the port is taken,
\* the interpreter has no ssl.wrap_socket, or the operator interrupts.
Scenario == Running /\ fs.index = IndexBody /\ ~certAtStart

C5_Scenario ==
  /\ (Scenario /\ "banner" \in Range(steps)) =>
       /\ run \in toolRuns
       /\ fs.cert = "valid"
       /\ \E i \in 1..Len(out) : out[i] = Line("https", "localhost", 8000)
       /\ pc = "serving"
       /\ \A i \in 1..Len(responses) :
            /\ responses[i].path = "/index.html" =>
                 (responses[i].status = 200 /\ responses[i].body = IndexBody)
            /\ responses[i].path = "/nope.html" => responses[i].status = 404
  /\ (pc = "exited" /\ fs.index = IndexBody /\ ~certAtStart /\ toolRc = 0
        /\ "banner" \notin Range(steps)) =>
       raised.exc \in {"OSError", "AttributeError", "KeyboardInterrupt"}

C5_Witness ==
  /\ Scenario
  /\ pc = "serving"
  /\ fs.cert = "valid"
  /\ Len(responses) = 2
  /\ \E i \in 1..2 : responses[i] = [path |-> "/index.html", status |-> 200, body |-> IndexBody]
  /\ \E i \in 1..2 : responses[i] = [path |-> "/nope.html", status |-> 404, body |-> ""]

\* C6: when cert.pem is absent and the tool fails, main neither stops nor
\* reports at the generation step but goes on to bind the port; when no
\* certificate file is there at the TLS wrap step, the run ends at that step
\* with an unhandled error, the banner not printed and the loop not entered.
ProcessStep == pc' # pc /\ sigints' = sigints

C6_GenerationFailureIgnored ==
  /\ [][(pc = "gen" /\ ProcessStep /\ toolRc' # 0) =>
          /\ pc' = "bind"
          /\ exitStatus' = "none"
          /\ raised' = NoExc
          /\ out' = Append(out, Generating)]_vars
  /\ [][(pc = "wrap" /\ ProcessStep /\ fs.cert = Absent) =>
          /\ pc' = "exited"
          /\ exitStatus' = "error"
          /\ raised'.at = "wrap"
          /\ Started \notin Range(out')
          /\ "banner" \notin Range(steps')
          /\ responses' = << >>]_vars

C6_Witness ==
  /\ pc = "exited"
  /\ toolRc = 127
  /\ fs.cert = Absent
  /\ raised = [exc |-> "FileNotFoundError", at |-> "wrap"]
  /\ exitStatus = "error"
  /\ steps = <<"cert", "bind">>

\* C7: when binding port 8000 fails, the process ends with an unhandled
\* error: no socket is wrapped, neither the "Server started" banner nor the
\* farewell is printed, the serving loop is not entered, and a cert.pem
\* generated earlier in the same run is still on disk.
BindFailed == raised = [exc |-> "OSError", at |-> "bind"]

C7_PortInUse ==
  /\ [][(pc = "bind" /\ ProcessStep /\ portOwner # "free") =>
          /\ pc' = "exited"
          /\ exitStatus' = "error"
          /\ BindFailed'
          /\ out' = out
          /\ fs' = fs]_vars
  /\ [](BindFailed =>
          /\ pc = "exited"
          /\ exitStatus = "error"
          /\ sock = "none"
          /\ "wrap" \notin Range(steps)
          /\ "banner" \notin Range(steps)
          /\ Started \notin Range(out)
          /\ Stopped \notin Range(out)
          /\ accepted = 0
          /\ responses = << >>
          /\ (toolRc = 0 => fs.cert = "valid"))

C7_Witness ==
  /\ BindFailed
  /\ pc = "exited"
  /\ run \in toolRuns
  /\ toolRc = 0
  /\ fs.cert = "valid"
  /\ portOwner = "other"

\* C8 as stated: the stages run in the order certificate provisioning,
\* network-address discovery, binding (with TLS wrap), reporting; so address
\* discovery is complete before the listening socket is bound.
C8_Original ==
  /\ IsPrefix(steps, <<"cert", "ip", "bind", "wrap", "banner">>)
  /\ (sock # "none" => "ip" \in Range(steps))

\* C8 amended: the stages run in the order certificate provisioning, server
\* construction/binding, TLS wrap, network-address discovery, reporting
\* (banner, serve loop); address discovery starts only after the listening
\* socket is bound and wrapped, and is complete before the banner.
C8_CodeOrder ==
  /\ IsPrefix(steps, <<"cert", "bind", "wrap", "ip", "banner">>)
  /\ (pc \in IpSteps => sock = "wrapped" /\ steps = <<"cert", "bind", "wrap">>)
  /\ (local_ip # "unset" => "wrap" \in Range(steps))
  /\ (pc = "banner" => local_ip # "unset")
  /\ (pc = "serving" => steps = <<"cert", "bind", "wrap", "ip", "banner">>)

C8_Witness ==
  /\ pc = "serving"
  /\ steps = <<"cert", "bind", "wrap", "ip", "banner">>
  /\ local_ip \in Addrs
  /\ sock = "wrapped"

\* C9: the serving loop handles one request at a time: never two requests in
\* handling, a connection is accepted only when no request is in handling,
\* and the loop is left only through an operator interrupt.
C9_OneAtATime ==
  /\ [](Cardinality(inflight) <= 1)
  /\ [][(accepted' > accepted) => inflight = {}]_vars
  /\ [][(pc = "serving" /\ pc' # "serving") =>
          (sigints' = sigints + 1 /\ raised'.exc \in {"none", "KeyboardInterrupt"})]_vars

C9_Witness ==
  /\ pc = "serving"
  /\ accepted = 2
  /\ Len(responses) = 1
  /\ \E c \in inflight : c.id = 2

\* C10: main's interrupt handler covers only the serving loop and the
\* catch-all of get_local_ip covers everything raised inside it: an interrupt
\* during get_local_ip is swallowed, "localhost" is returned and the process
\* goes on to the banner; an interrupt elsewhere before the loop ends the
\* process with an unhandled error and no farewell; so "Server stopped" is
\* printed at most once per run and only after "Server started".
C10_InterruptScopes ==
  /\ [][(pc \in IpSteps /\ sigints' > sigints) =>
          /\ local_ip' = "localhost"
          /\ pc' = "banner"
          /\ exitStatus' = "none"
          /\ out' = out]_vars
  /\ [][(pc \notin (IpSteps \cup {"serving"}) /\ sigints' > sigints) =>
          /\ pc' = "exited"
          /\ exitStatus' = "error"
          /\ out' = out]_vars
  /\ [](/\ Cardinality({i \in 1..Len(out) : out[i] = Stopped}) <= 1
        /\ \A i \in 1..Len(out) :
             out[i] = Stopped => \E j \in 1..(i-1) : out[j] = Started)

C10_Witness ==
  /\ ipFault = "KeyboardInterrupt"
  /\ local_ip = "localhost"
  /\ sigints = 2
  /\ pc = "exited"
  /\ exitStatus = "clean"
  /\ out[Len(out)] = Stopped

====
